---- MODULE Spec2Model ----
(***************************************************************************)
(* Model of the URL timing probe of website_speed_test: the /api/test      *)
(* handler and testURL of server.js (src/public/script.js, lines 84-280),  *)
(* and the page that calls it (lines 1-83).                                *)
(* Strings are TLA+ strings handled character by character through        *)
(* Len, SubSeq and \o, so the URL conversions are computed, not assumed.   *)
(***************************************************************************)
EXTENDS Integers, Sequences, FiniteSets, TLC

(***************************************************************************)
(* Bounds of the model.                                                    *)
(***************************************************************************)
MaxHops == 2        \* requests of one invocation when faults and the clock play
MaxChain == 5       \* requests of one invocation on a network without faults
MaxChunks == 2      \* body data events per response
MaxTicks == 1       \* clock advances per behaviour
MaxFaults == 1      \* requests hit by a transport error or an idle timeout
MaxSubmits == 2     \* submissions of the form that start a runTests call

(***************************************************************************)
(* Program constants.                                                      *)
(***************************************************************************)
TimeoutMs == 15000
MaxRedirects == 3

(***************************************************************************)
(* Strings.                                                                *)
(***************************************************************************)
\* s.charAt(i - 1): the empty string outside the string
At(s, i) == IF i \in 1..Len(s) THEN SubSeq(s, i, i) ELSE ""

StartsWith(s, p) == Len(s) >= Len(p) /\ SubSeq(s, 1, Len(p)) = p

\* s.slice(i) with i counted from 1
From(s, i) == IF i \in 1..Len(s) THEN SubSeq(s, i, Len(s)) ELSE ""

\* The least position where p occurs in s, or 0: s.indexOf(p) + 1.
IndexOf(s, p) ==
  LET hits == {i \in 1..(Len(s) - Len(p) + 1) : SubSeq(s, i, i + Len(p) - 1) = p}
  IN  IF hits = {} THEN 0 ELSE CHOOSE i \in hits : \A j \in hits : i <= j

Includes(s, p) == IndexOf(s, p) # 0

Digits == "0123456789"
UpperChars == "ABCDEFGHIJKLMNOPQRSTUVWXYZ"
LowerChars == "abcdefghijklmnopqrstuvwxyz"

IsDigit(c) == Len(c) = 1 /\ Includes(Digits, c)
DigitVal(c) == IndexOf(Digits, c) - 1

\* The lower-case letter of each upper-case letter.
LowerOf ==
  [u \in {At(UpperChars, i) : i \in 1..Len(UpperChars)} |->
     At(LowerChars, IndexOf(UpperChars, u))]

LowerChar(c) == IF c \in DOMAIN LowerOf THEN LowerOf[c] ELSE c

RECURSIVE ToLowerCase(_)
ToLowerCase(s) ==
  IF s = "" THEN "" ELSE LowerChar(At(s, 1)) \o ToLowerCase(From(s, 2))

\* Number of leading decimal digits of s: the greedy match of \d+ or \d*.
RECURSIVE DigitRun(_)
DigitRun(s) ==
  IF s # "" /\ IsDigit(At(s, 1)) THEN 1 + DigitRun(From(s, 2)) ELSE 0

\* parseInt of a string of decimal digits.
RECURSIVE DigitsValue(_, _)
DigitsValue(s, acc) ==
  IF s = "" THEN acc ELSE DigitsValue(From(s, 2), 10 * acc + DigitVal(At(s, 1)))

ParseInt(s) == DigitsValue(s, 0)

\* Template rendering of a non-negative integer.
RECURSIVE IntToStr(_)
IntToStr(n) ==
  IF n < 10 THEN At(Digits, n + 1)
  ELSE IntToStr(n \div 10) \o At(Digits, (n % 10) + 1)

(***************************************************************************)
(* Nullable values: <<>> is null, <<v>> is the value v.                    *)
(***************************************************************************)
Null == <<>>
Some(v) == <<v>>

\* How a template literal renders a nullable string.
Render(opt) == IF opt = Null THEN "null" ELSE opt[1]

(***************************************************************************)
(* url.parse of Node's legacy URL module, as far as testURL reads its      *)
(* result: protocol, host and hostname.  The strings of the model use      *)
(* letters, digits and the characters : / ? & = . - _ # only.              *)
(***************************************************************************)
IsSchemeChar(c) ==
  Len(c) = 1 /\ (Includes(LowerChars, c) \/ Includes(UpperChars, c)
                 \/ IsDigit(c) \/ c \in {".", "+", "-"})

IsHostnameChar(c) ==
  Len(c) = 1 /\ (Includes(LowerChars, c) \/ Includes(UpperChars, c)
                 \/ IsDigit(c) \/ c \in {".", "+", "-", "_"})

\* Length of the longest prefix of s made of scheme characters.
RECURSIVE SchemeRun(_)
SchemeRun(s) ==
  IF s # "" /\ IsSchemeChar(At(s, 1)) THEN 1 + SchemeRun(From(s, 2)) ELSE 0

\* Length of the longest prefix of s made of hostname characters.
RECURSIVE HostnameRun(_)
HostnameRun(s) ==
  IF s # "" /\ IsHostnameChar(At(s, 1)) THEN 1 + HostnameRun(From(s, 2)) ELSE 0

\* Length of the longest prefix of s holding none of the host-ending
\* characters / ? #.
RECURSIVE HostRun(_)
HostRun(s) ==
  IF s # "" /\ At(s, 1) \notin {"/", "?", "#"} THEN 1 + HostRun(From(s, 2)) ELSE 0

\* Length of the longest suffix of s made of digits.
RECURSIVE TrailingDigits(_)
TrailingDigits(s) ==
  IF s # "" /\ IsDigit(At(s, Len(s)))
  THEN 1 + TrailingDigits(SubSeq(s, 1, Len(s) - 1)) ELSE 0

SlashedProtocols == {"http:", "https:", "ftp:", "gopher:", "file:", "ws:", "wss:"}

\* The result of url.parse: the hostname, lower-cased, and the port after it.
ParsedHost(protocol, hostname, port) ==
  [protocol |-> protocol,
   host     |-> Some(hostname \o (IF port # "" THEN ":" \o port ELSE "")),
   hostname |-> Some(hostname)]

\* Characters that cannot be part of a hostname start the path.
ParseHostname(protocol, noPort, port) ==
  ParsedHost(protocol, ToLowerCase(SubSeq(noPort, 1, HostnameRun(noPort))), port)

\* portPattern /:[0-9]*$/ with d the number of trailing digits of rawHost
ParsePort(protocol, rawHost, d) ==
  IF Len(rawHost) > d /\ At(rawHost, Len(rawHost) - d) = ":"
  THEN ParseHostname(protocol, SubSeq(rawHost, 1, Len(rawHost) - d - 1),
                     From(rawHost, Len(rawHost) - d + 1))
  ELSE ParseHostname(protocol, rawHost, "")

\* The host is what precedes the first of / ? # in rest.
ParseHost(protocol, rest) ==
  ParsePort(protocol, SubSeq(rest, 1, HostRun(rest)),
            TrailingDigits(SubSeq(rest, 1, HostRun(rest))))

\* rest is what follows the protocol; proto is "" when there is none.
ParseAfterProtocol(proto, rest) ==
  LET protocol == IF proto = "" THEN Null ELSE Some(proto)
      slashes  == proto # "" /\ StartsWith(rest, "//")
  IN  IF proto = "javascript:"
        \/ ~(slashes \/ (proto # "" /\ proto \notin SlashedProtocols))
      THEN [protocol |-> protocol, host |-> Null, hostname |-> Null]
      ELSE ParseHost(protocol, IF slashes THEN From(rest, 3) ELSE rest)

\* protocolPattern /^[a-z0-9.+-]+:/i with n the length of the scheme run of s
ParseProtocol(s, n) ==
  IF n >= 1 /\ At(s, n + 1) = ":"
  THEN ParseAfterProtocol(ToLowerCase(SubSeq(s, 1, n + 1)), From(s, n + 2))
  ELSE ParseAfterProtocol("", s)

ParseUrl(s) == ParseProtocol(s, SchemeRun(s))

\* The test location !== undefined, which takes the empty string for a value.
FalsyOnlyNull(opt) == opt = Null

\* Falsy in JavaScript: null or the empty string.
Falsy(opt) == opt = Null \/ opt = Some("")

\* lib = parsed.protocol === 'https:' ? https : http
Lib(parsed) == IF parsed.protocol = Some("https:") THEN "https" ELSE "http"

\* lib.get throws synchronously when options.protocol is not the protocol
\* of the module it is called on.
GetThrows(parsed) ==
  /\ ~Falsy(parsed.protocol)
  /\ parsed.protocol # Some(Lib(parsed) \o ":")

\* The host the request connects to: hostname || host || 'localhost'.
ConnectHost(parsed) ==
  IF ~Falsy(parsed.hostname) THEN parsed.hostname[1]
  ELSE IF ~Falsy(parsed.host) THEN parsed.host[1]
  ELSE "localhost"

(***************************************************************************)
(* The /api/test handler's normalisation of the target.                    *)
(***************************************************************************)
\* The test without the i flag.
HasSchemePrefixCaseSensitive(s) ==
  StartsWith(s, "http://") \/ StartsWith(s, "https://")

\* /^https?:\/\//i.test(s)
HasSchemePrefix(s) ==
  \/ StartsWith(ToLowerCase(s), "http://")
  \/ StartsWith(ToLowerCase(s), "https://")

FullUrl(targetUrl) ==
  IF ~HasSchemePrefix(targetUrl) THEN "https://" \o targetUrl ELSE targetUrl

(***************************************************************************)
(* The redirect marker carried in the URL between hops.                    *)
(***************************************************************************)
Marker == "redirect_count="

\* Positions where /redirect_count=\d+/ matches in s.
MarkerHits(s) ==
  {i \in 1..Len(s) : /\ StartsWith(From(s, i), Marker)
                     /\ DigitRun(From(s, i + Len(Marker))) >= 1}

Least(S) == CHOOSE i \in S : \A j \in S : i <= j

\* parseInt(testUrl.match(/redirect_count=(\d+)/)?.[1] || '0')
RedirectCount(testUrl) ==
  LET hits == MarkerHits(testUrl)
  IN  IF hits = {} THEN ParseInt("0")
      ELSE LET i == Least(hits) + Len(Marker)
           IN  ParseInt(SubSeq(testUrl, i, i + DigitRun(From(testUrl, i)) - 1))

\* location.startsWith('http') ? location
\*                             : `${parsed.protocol}//${parsed.host}${location}`
RedirectUrl(location, parsed) ==
  IF StartsWith(location, "http") THEN location
  ELSE Render(parsed.protocol) \o "//" \o Render(parsed.host) \o location

\* redirectUrl + (redirectUrl.includes('?') ? '&' : '?') + `redirect_count=${n}`
NewUrl(redirectUrl, newRedirectCount) ==
  redirectUrl \o (IF Includes(redirectUrl, "?") THEN "&" ELSE "?")
              \o Marker \o IntToStr(newRedirectCount)

\* testUrl.replace(/[?&]redirect_count=\d+/, '')
CleanUrl(testUrl) ==
  LET hits == {i \in MarkerHits(testUrl) : i > 1 /\ At(testUrl, i - 1) \in {"?", "&"}}
  IN  IF hits = {} THEN testUrl
      ELSE LET i == Least(hits)
               e == i + Len(Marker) + DigitRun(From(testUrl, i + Len(Marker)))
           IN  SubSeq(testUrl, 1, i - 2) \o From(testUrl, e)


(***************************************************************************)
(* Inputs of the model.                                                    *)
(***************************************************************************)
\* Values of the url query parameter of /api/test.
Targets ==
  {"", "a", "/", "HTTPS://a/p", "http://a/?redirect_count=3"}

\* Values of the Location header of a 3xx response; Null is no header.
Locations ==
  {Null, Some(""), Some("/p"), Some("/?redirect_count=0"), Some("httpx://b"),
   Some("p"), Some("//b/p"), Some("http://b/")}

RedirectStatus == 302
Statuses == {200, RedirectStatus}

ChunkLengths == {1, 2}
TickSteps == {1, TimeoutMs}

\* Transport errors the runtime reports on a request: code and message.
TransportErrors ==
  {[code |-> "ECONNRESET", message |-> "read ECONNRESET"],
   [code |-> "ETIMEDOUT", message |-> "connect ETIMEDOUT"],
   [code |-> "ECONNREFUSED", message |-> "connect ECONNREFUSED"]}

\* new Error('Request timed out'), the error the timeout callback destroys
\* the request with; it has no code.
TimedOutError == [code |-> "", message |-> "Request timed out"]

\* The error lib.get throws for a protocol it does not serve.
InvalidProtocolError == [code |-> "ERR_INVALID_PROTOCOL", message |-> "Protocol not supported"]

(***************************************************************************)
(* State.                                                                  *)
(***************************************************************************)
VARIABLES
  targetUrl,     \* the url parameter of the /api/test request, Null before it
  fullUrl,       \* fullUrl of the /api/test handler
  hasResponded,  \* hasResponded of the /api/test handler
  response,      \* the HTTP response written by the handler, Null if none
  hops,          \* one record per request issued by testURL, in order
  calls,         \* the invocations of testURL's callback, in order
  now,           \* Date.now()
  ticks,         \* clock advances so far
  runs,          \* the runTests calls of the page, in order of submission
  rows,          \* every tr element runTests created, in order of creation
  resultsBody,   \* the rows attached to the results table, top to bottom
  requests       \* the /api/test requests the page issued, in order

serverVars == <<targetUrl, fullUrl, hasResponded, response, hops, calls, now, ticks>>
pageVars == <<runs, rows, resultsBody, requests>>

vars == <<targetUrl, fullUrl, hasResponded, response, hops, calls, now, ticks,
          runs, rows, resultsBody, requests>>

\* The locals of one testURL invocation and the state of its request.
NewHop(testUrl, parsed, t) ==
  [testUrl          |-> testUrl,
   lib              |-> Lib(parsed),
   connectHost      |-> ConnectHost(parsed),
   startTime        |-> t,
   firstByteTime    |-> Null,
   bytesTransferred |-> 0,
   hasCalledBack    |-> FALSE,
   req              |-> "active",    \* "active" or "destroyed"
   destroyError     |-> Null,        \* the error req.destroy(err) was called with
   errored          |-> FALSE,       \* 'error' was emitted on req
   emitted          |-> Null,        \* the error that event carried
   timeoutListener  |-> TRUE,        \* the once('timeout') callback is registered
   lastActivity     |-> t,           \* last activity on the socket
   res              |-> "none",      \* "none", "unread", "flowing" or "ended"
   statusCode       |-> 0,           \* res.statusCode, 0 before the response
   location         |-> Null,        \* res.headers.location
   onceData         |-> FALSE,       \* the once('data') listener is registered
   chunks           |-> 0,           \* data events emitted by res
   received         |-> 0]           \* body bytes those events carried

ErrorCall(message) == [err |-> Some(message), data |-> Null]
ResultCall(data) == [err |-> Null, data |-> Some(data)]

\* Requests on which an 'error' or a 'timeout' event has been emitted.
Faults == Cardinality({h \in DOMAIN hops : hops[h].errored \/ ~hops[h].timeoutListener})

Init ==
  /\ targetUrl = Null
  /\ fullUrl = ""
  /\ hasResponded = FALSE
  /\ response = Null
  /\ hops = <<>>
  /\ calls = <<>>
  /\ now = 0
  /\ ticks = 0
  /\ runs = <<>>
  /\ rows = <<>>
  /\ resultsBody = <<>>
  /\ requests = <<>>

(***************************************************************************)
(* The callback passed to testURL by the /api/test handler.                *)
(***************************************************************************)
ResponseBody(call) ==
  IF call.err # Null THEN [url |-> fullUrl', error |-> call.err[1]]
  ELSE call.data[1]

Callback(call) ==
  /\ calls' = Append(calls, call)
  /\ IF ~hasResponded
     THEN /\ hasResponded' = TRUE
          /\ response' = Some([status |-> 200, body |-> ResponseBody(call)])
     ELSE UNCHANGED <<hasResponded, response>>

NoCallback == UNCHANGED <<calls, hasResponded, response>>

\* The outcome of a handler: the hop it leaves and the call it makes, if any.
Deliver(out) == IF out = Null THEN NoCallback ELSE Callback(out[1])

(***************************************************************************)
(* testURL up to its return: parse, issue the request, register handlers.  *)
(* hs is the list of hops as the caller leaves it.                         *)
(***************************************************************************)
TestParsed(hs, testUrl, parsed) ==
  IF GetThrows(parsed)
  THEN /\ hops' = hs
       /\ Callback(ErrorCall(InvalidProtocolError.message))
  ELSE /\ hops' = Append(hs, NewHop(testUrl, parsed, now))
       /\ NoCallback

TestURL(hs, testUrl) == TestParsed(hs, testUrl, ParseUrl(testUrl))

(***************************************************************************)
(* The /api/test handler.                                                  *)
(***************************************************************************)
ApiTest(t) ==
  /\ UNCHANGED pageVars
  /\ targetUrl = Null
  /\ targetUrl' = Some(t)
  /\ UNCHANGED <<now, ticks>>
  /\ IF t = ""
     THEN /\ response' = Some([status |-> 400,
                               body |-> [error |-> "Missing url parameter"]])
          /\ UNCHANGED <<fullUrl, hasResponded, hops, calls>>
     ELSE /\ fullUrl' = FullUrl(t)
          /\ TestURL(hops, FullUrl(t))

(***************************************************************************)
(* The response callback of lib.get.                                       *)
(***************************************************************************)
IsRedirect(statusCode) == statusCode >= 300 /\ statusCode < 400

\* if (location && !hasCalledBack)
FollowsLocation(hop, statusCode, location) ==
  IsRedirect(statusCode) /\ ~Falsy(location) /\ ~hop.hasCalledBack

WithinBudget(redirectCount) == redirectCount < MaxRedirects

OnResponse(h, statusCode, location) ==
  LET hop  == hops[h]
      seen == [hop EXCEPT !.statusCode = statusCode, !.location = location,
                          !.lastActivity = now]
  IN
  /\ UNCHANGED pageVars
  /\ hop.req = "active" /\ hop.res = "none"
  /\ UNCHANGED <<targetUrl, fullUrl, now, ticks>>
  /\ IF FollowsLocation(hop, statusCode, location)
     THEN LET redirectCount == RedirectCount(hop.testUrl)
              left == [seen EXCEPT !.hasCalledBack = TRUE, !.res = "unread"]
          IN  IF WithinBudget(redirectCount)
              THEN TestURL([hops EXCEPT ![h] = left],
                           NewUrl(RedirectUrl(location[1], ParseUrl(hop.testUrl)),
                                  redirectCount + 1))
              ELSE /\ hops' = [hops EXCEPT ![h] = left]
                   /\ Callback(ErrorCall("Too many redirects"))
     ELSE /\ hops' = [hops EXCEPT ![h] = [seen EXCEPT !.res = "flowing",
                                                      !.onceData = TRUE]]
          /\ NoCallback

(***************************************************************************)
(* The data and end listeners of the response.                             *)
(***************************************************************************)
\* The listener storing the time of the event instead of the elapsed time.
OnceDataAbsolute(hop, t) ==
  [hop EXCEPT !.firstByteTime = Some(t), !.onceData = FALSE]

\* The listener registered with on instead of once.
OnceDataKept(hop, t) ==
  [hop EXCEPT !.firstByteTime = Some(t - hop.startTime)]

\* res.once('data', ...): runs on the first data event and is then removed.
OnceData(hop, t) ==
  [hop EXCEPT !.firstByteTime = Some(t - hop.startTime), !.onceData = FALSE]

\* The data listener keeping the length of the latest chunk.
OnDataLast(hop, length) ==
  [hop EXCEPT !.bytesTransferred = length]

\* res.on('data', ...)
OnData(hop, length) ==
  [hop EXCEPT !.bytesTransferred = hop.bytesTransferred + length]

ResData(h, length) ==
  LET hop == hops[h]
      a   == IF hop.onceData THEN OnceData(hop, now) ELSE hop
      b   == OnData(a, length)
  IN
  /\ UNCHANGED pageVars
  /\ hop.req = "active" /\ hop.res = "flowing"
  /\ hop.chunks < MaxChunks
  /\ UNCHANGED <<targetUrl, fullUrl, now, ticks>>
  /\ hops' = [hops EXCEPT ![h] = [b EXCEPT !.chunks = hop.chunks + 1,
                                           !.received = hop.received + length,
                                           !.lastActivity = now]]
  /\ NoCallback

\* The end listener taking the time of the event for the elapsed time.
OnEndSinceEpoch(hop, t) ==
  IF ~hop.hasCalledBack
  THEN [hop |-> [hop EXCEPT !.hasCalledBack = TRUE],
        out |-> Some(ResultCall([url   |-> CleanUrl(hop.testUrl),
                                 ttfb  |-> hop.firstByteTime,
                                 total |-> t,
                                 bytes |-> hop.bytesTransferred]))]
  ELSE [hop |-> hop, out |-> Null]

\* res.on('end', ...)
OnEnd(hop, t) ==
  IF ~hop.hasCalledBack
  THEN [hop |-> [hop EXCEPT !.hasCalledBack = TRUE],
        out |-> Some(ResultCall([url   |-> CleanUrl(hop.testUrl),
                                 ttfb  |-> hop.firstByteTime,
                                 total |-> t - hop.startTime,
                                 bytes |-> hop.bytesTransferred]))]
  ELSE [hop |-> hop, out |-> Null]

ResEnd(h) ==
  LET hop == hops[h]
      r   == OnEnd(hop, now)
  IN
  /\ UNCHANGED pageVars
  /\ hop.req = "active" /\ hop.res = "flowing"
  /\ UNCHANGED <<targetUrl, fullUrl, now, ticks>>
  /\ hops' = [hops EXCEPT ![h] = [r.hop EXCEPT !.res = "ended"]]
  /\ Deliver(r.out)

(***************************************************************************)
(* req.on('error', ...)                                                    *)
(***************************************************************************)
\* The error listener without the hasCalledBack guard.
OnErrorUnguarded(hop, err) ==
  [hop |-> [hop EXCEPT !.hasCalledBack = TRUE],
   out |-> Some(ErrorCall(err.message))]

\* The error listener passing every error on as it came.
OnErrorVerbatim(hop, err) ==
  IF ~hop.hasCalledBack
  THEN [hop |-> [hop EXCEPT !.hasCalledBack = TRUE],
        out |-> Some(ErrorCall(err.message))]
  ELSE [hop |-> hop, out |-> Null]

OnError(hop, err) ==
  IF ~hop.hasCalledBack
  THEN [hop |-> [hop EXCEPT !.hasCalledBack = TRUE],
        out |-> Some(ErrorCall(IF err.code = "ECONNRESET"
                                 THEN "Connection reset by server"
                               ELSE IF err.code = "ETIMEDOUT"
                                 THEN "Connection timed out"
                               ELSE err.message))]
  ELSE [hop |-> hop, out |-> Null]

\* A transport error reported by the runtime; the socket is gone afterwards.
ReqError(h, err) ==
  LET hop == hops[h]
      r   == OnError(hop, err)
  IN
  /\ UNCHANGED pageVars
  /\ hop.req = "active" /\ ~hop.errored
  /\ Faults < MaxFaults
  /\ UNCHANGED <<targetUrl, fullUrl, now, ticks>>
  /\ hops' = [hops EXCEPT ![h] = [r.hop EXCEPT !.req = "destroyed",
                                               !.errored = TRUE,
                                               !.emitted = Some(err)]]
  /\ Deliver(r.out)

\* The 'error' event that req.destroy(err) makes the request emit.
ReqDestroyError(h) ==
  LET hop == hops[h]
      r   == OnError(hop, hop.destroyError[1])
  IN
  /\ UNCHANGED pageVars
  /\ hop.destroyError # Null /\ ~hop.errored
  /\ UNCHANGED <<targetUrl, fullUrl, now, ticks>>
  /\ hops' = [hops EXCEPT ![h] = [r.hop EXCEPT !.errored = TRUE,
                                               !.emitted = hop.destroyError]]
  /\ Deliver(r.out)

(***************************************************************************)
(* req.setTimeout(15000, ...): the socket has been idle for 15000 ms.      *)
(***************************************************************************)
OnTimeout(hop) ==
  IF ~hop.hasCalledBack
  THEN [hop EXCEPT !.hasCalledBack = TRUE,
                   !.req = "destroyed",
                   !.destroyError = Some(TimedOutError)]
  ELSE hop

ReqTimeout(h) ==
  LET hop == hops[h]
  IN
  /\ UNCHANGED pageVars
  /\ hop.req = "active" /\ hop.res # "ended"
  /\ hop.timeoutListener
  /\ Faults < MaxFaults
  /\ now - hop.lastActivity >= TimeoutMs
  /\ UNCHANGED <<targetUrl, fullUrl, now, ticks>>
  /\ hops' = [hops EXCEPT ![h] = [OnTimeout(hop) EXCEPT !.timeoutListener = FALSE]]
  /\ NoCallback

(***************************************************************************)
(* The clock.                                                              *)
(***************************************************************************)
Tick(d) ==
  /\ UNCHANGED pageVars
  /\ ticks < MaxTicks
  /\ now' = now + d
  /\ ticks' = ticks + 1
  /\ UNCHANGED <<targetUrl, fullUrl, hasResponded, response, hops, calls>>

\* The targets and Location headers met where faults and the clock play:
\* the URL shapes that matter to the marker need no fault to show.
PlainTargets == {"", "a", "HTTPS://a/p"}
PlainLocations == {Null, Some(""), Some("/p")}

Next ==
  \/ \E t \in PlainTargets : ApiTest(t)
  \/ \E h \in DOMAIN hops, sc \in Statuses, loc \in PlainLocations :
       /\ sc = RedirectStatus \/ loc = Null
       /\ OnResponse(h, sc, loc)
       /\ Len(hops') <= MaxHops
  \/ \E h \in DOMAIN hops, n \in ChunkLengths : ResData(h, n)
  \/ \E h \in DOMAIN hops : ResEnd(h)
  \/ \E h \in DOMAIN hops, e \in TransportErrors : ReqError(h, e)
  \/ \E h \in DOMAIN hops : ReqDestroyError(h)
  \/ \E h \in DOMAIN hops : ReqTimeout(h)
  \/ \E d \in TickSteps : Tick(d)

Spec == Init /\ [][Next]_vars

\* The same program on a network without transport errors and timeouts,
\* with the clock standing still: longer redirect chains are in reach.
ChainNext ==
  \/ \E t \in Targets : ApiTest(t)
  \/ \E h \in DOMAIN hops, sc \in Statuses, loc \in Locations :
       /\ sc = RedirectStatus \/ loc = Null
       /\ OnResponse(h, sc, loc)
       /\ Len(hops') <= MaxChain
  \/ \E h \in DOMAIN hops, n \in ChunkLengths : ResData(h, n)
  \/ \E h \in DOMAIN hops : ResEnd(h)

ChainSpec == Init /\ [][ChainNext]_vars

TypeOK ==
  /\ hasResponded \in BOOLEAN
  /\ now \in Nat /\ ticks \in 0..MaxTicks
  /\ Len(hops) <= MaxChain
  /\ \A h \in DOMAIN hops :
       /\ hops[h].req \in {"active", "destroyed"}
       /\ hops[h].res \in {"none", "unread", "flowing", "ended"}
       /\ hops[h].lib \in {"http", "https"}
       /\ hops[h].chunks \in 0..MaxChunks

(***************************************************************************)
(* The page (src/public/script.js, lines 1-83): the submit handler of the  *)
(* form and runTests.  The /api/test endpoint is the page's environment    *)
(* here: a request the page issued is answered by one of FetchOutcomes.    *)
(***************************************************************************)
Whitespace == {" ", "\t", "\n"}

RECURSIVE TrimStart(_)
TrimStart(s) ==
  IF s # "" /\ At(s, 1) \in Whitespace THEN TrimStart(From(s, 2)) ELSE s

RECURSIVE TrimEnd(_)
TrimEnd(s) ==
  IF s # "" /\ At(s, Len(s)) \in Whitespace
  THEN TrimEnd(IF Len(s) = 1 THEN "" ELSE SubSeq(s, 1, Len(s) - 1))
  ELSE s

\* String.prototype.trim
Trim(s) == TrimEnd(TrimStart(s))

\* String.prototype.split with a non-empty separator
RECURSIVE Split(_, _)
Split(s, sep) ==
  LET k == IndexOf(s, sep)
  IN  IF k = 0 THEN <<s>>
      ELSE <<IF k = 1 THEN "" ELSE SubSeq(s, 1, k - 1)>>
             \o Split(From(s, k + Len(sep)), sep)

\* raw.split(',').map((u) => u.trim()).filter(Boolean)
Urls(raw) ==
  LET parts == Split(raw, ",")
  IN  SelectSeq([i \in DOMAIN parts |-> Trim(parts[i])], LAMBDA u : u # "")

\* encodeURIComponent: letters, digits and - _ . ! ~ * ' ( ) stay, every
\* other character of the model's strings becomes its percent code.
Unreserved ==
  LET kept == LowerChars \o UpperChars \o Digits \o "-_.!~*'()"
  IN  {At(kept, i) : i \in 1..Len(kept)}

PercentCode ==
  (" " :> "%20") @@ ("#" :> "%23") @@ ("&" :> "%26") @@ ("," :> "%2C") @@
  ("/" :> "%2F") @@ (":" :> "%3A") @@ ("=" :> "%3D") @@ ("?" :> "%3F")

RECURSIVE EncodeURIComponent(_)
EncodeURIComponent(s) ==
  IF s = "" THEN ""
  ELSE (IF At(s, 1) \in Unreserved THEN At(s, 1) ELSE PercentCode[At(s, 1)])
         \o EncodeURIComponent(From(s, 2))

ApiTestRequest(url) == "/api/test?url=" \o EncodeURIComponent(url)

\* The texts of the second cell, which the source writes in Chinese:
\* "testing..." (line 51), "error" (lines 60 and 69), "none" (line 64).
TestingText == "testing..."
ErrorText == "error"
NoneText == "none"

\* Values of the urls input field at a submission.
Inputs == {" ", "a/p, b", ",b,"}

\* What becomes of a request: fetch or response.json() rejects, or the body
\* is an error object or a result object.
FetchOutcomes ==
  {[rejected |-> Some("Failed to fetch"), error |-> Null,
    ttfb |-> Null, total |-> 0, bytes |-> 0],
   [rejected |-> Null, error |-> Some("Too many redirects"),
    ttfb |-> Null, total |-> 0, bytes |-> 0],
   [rejected |-> Null, error |-> Null, ttfb |-> Null, total |-> 7, bytes |-> 0],
   [rejected |-> Null, error |-> Null, ttfb |-> Some(5), total |-> 7, bytes |-> 3]}

\* The tr element of lines 47-54; run and position tell which call made it.
NewRow(r, i, url) ==
  [run |-> r, position |-> i, url |-> url, cells |-> <<TestingText, "", "">>]

\* The cells 1 to 3 of the row after lines 59-72.
Cells(o) ==
  IF o.rejected # Null THEN <<ErrorText, o.rejected[1], "">>
  ELSE IF ~Falsy(o.error) THEN <<ErrorText, o.error[1], "">>
  ELSE <<IF o.ttfb # Null THEN IntToStr(o.ttfb[1]) ELSE NoneText,
         IntToStr(o.total), IntToStr(o.bytes)>>

\* The for loop of call r from position i up to its next await, with rs, rws
\* and body the calls, the rows and the table as the caller leaves them.
LoopFrom(rs, rws, r, body, i) ==
  IF i > Len(rs[r].urls)
  THEN /\ runs' = [rs EXCEPT ![r] = [@ EXCEPT !.position = i, !.pc = "done"]]
       /\ rows' = rws
       /\ resultsBody' = body
       /\ UNCHANGED requests
  ELSE /\ rows' = Append(rws, NewRow(r, i, rs[r].urls[i]))
       /\ resultsBody' = Append(body, Len(rws) + 1)
       /\ requests' = Append(requests, [run     |-> r,
                                        url     |-> ApiTestRequest(rs[r].urls[i]),
                                        outcome |-> Null])
       /\ runs' = [rs EXCEPT ![r] = [@ EXCEPT !.position = i,
                                              !.row = Len(rws) + 1,
                                              !.request = Len(requests) + 1,
                                              !.pc = "await"]]

\* runTests(urls) up to its first await: the table is emptied first.
RunTests(urls) ==
  LoopFrom(Append(runs, [urls |-> urls, position |-> 0, row |-> 0,
                         request |-> 0, pc |-> "start"]),
           rows, Len(runs) + 1, <<>>, 1)

\* The submit handler of the form, v being the value of the input field.
Submit(v) ==
  /\ Len(runs) < MaxSubmits
  /\ UNCHANGED serverVars
  /\ IF Trim(v) = "" THEN UNCHANGED pageVars ELSE RunTests(Urls(Trim(v)))

\* The network settles request k.
Respond(k, o) ==
  /\ requests[k].outcome = Null
  /\ requests' = [requests EXCEPT ![k] = [@ EXCEPT !.outcome = Some(o)]]
  /\ UNCHANGED <<runs, rows, resultsBody>>
  /\ UNCHANGED serverVars

\* Call r going on without waiting for its request.
ResumeUnawaited(r) ==
  /\ runs[r].pc = "await"
  /\ UNCHANGED serverVars
  /\ LoopFrom(runs, rows, r, resultsBody, runs[r].position + 1)

\* Call r resumes after its awaits (lines 57-58): it fills its row and goes
\* on with the loop.
Resume(r) ==
  LET run == runs[r]
      req == requests[run.request]
  IN
  /\ run.pc = "await"
  /\ req.outcome # Null
  /\ UNCHANGED serverVars
  /\ LoopFrom(runs,
              [rows EXCEPT ![run.row] = [@ EXCEPT !.cells = Cells(req.outcome[1])]],
              r, resultsBody, run.position + 1)

PageNext ==
  \/ \E v \in Inputs : Submit(v)
  \/ \E k \in DOMAIN requests, o \in FetchOutcomes : Respond(k, o)
  \/ \E r \in DOMAIN runs : Resume(r)

PageSpec == Init /\ [][PageNext]_vars

PageTypeOK ==
  /\ Len(runs) <= MaxSubmits
  /\ \A r \in DOMAIN runs : runs[r].pc \in {"await", "done"}
  /\ \A k \in DOMAIN resultsBody : resultsBody[k] \in DOMAIN rows
  /\ \A k \in DOMAIN requests : requests[k].run \in DOMAIN runs

(***************************************************************************)
(* Properties.                                                             *)
(***************************************************************************)
LastHop == hops[Len(hops)]

Results == {calls[i].data[1] : i \in {j \in DOMAIN calls : calls[j].data # Null}}
Errors == {calls[i].err[1] : i \in {j \in DOMAIN calls : calls[j].err # Null}}

\* C1: the completion callback of one top-level testURL invocation is
\* invoked at most once, whatever events arrive on the current hop or on
\* earlier hops of the redirect chain.
C1_AtMostOneCallback == Len(calls) <= 1

\* A result was delivered by the last hop of a redirect chain and an error
\* event was emitted on the first hop of that chain.
C1_Witness ==
  /\ Len(hops) >= 2
  /\ hops[1].errored
  /\ Len(calls) = 1 /\ calls[1].data # Null

\* C2: every top-level invocation delivers an outcome: once the last hop
\* has seen end-of-body, or the 'error' event of a transport error or of
\* its timeout, the callback has been invoked.
C2_OutcomeDelivered ==
  (hops # <<>> /\ (LastHop.res = "ended" \/ LastHop.errored)) => Len(calls) >= 1

\* C3: a hop whose timer fired while no outcome had been delivered, and
\* whose request was therefore destroyed with the timed-out error, has
\* invoked the callback with the error 'Request timed out'.
C3_TimeoutDelivered ==
  \A h \in DOMAIN hops :
    (hops[h].destroyError = Some(TimedOutError) /\ hops[h].errored)
      => TimedOutError.message \in Errors

\* C4: the url of a delivered result is the URL passed to the top-level
\* testURL invocation, however many redirects were followed.
C4_ResultUrlIsOriginal == \A r \in Results : r.url = fullUrl

\* C5: one top-level invocation follows at most 3 redirects, that is, it
\* issues at most 4 requests, whatever the Location values are.
C5_AtMostFourRequests == Len(hops) <= MaxRedirects + 1

\* C6: a redirect with a Location received on a hop that has used the
\* budget of 3 redirects (the hop returns with its response unread) is
\* answered with 'Too many redirects' and no further request, and
\* 'Too many redirects' is delivered only on such a hop.
C6_BudgetExact ==
  /\ \A h \in DOMAIN hops :
       (h > MaxRedirects /\ hops[h].res = "unread")
         => ("Too many redirects" \in Errors /\ Len(hops) = h)
  /\ "Too many redirects" \in Errors => Len(hops) = MaxRedirects + 1

\* C7: on a non-decreasing clock every delivered result has bytes >= 0 and,
\* when ttfb is not null, 0 <= ttfb <= total.
C7_TimingsOrdered ==
  \A r \in Results :
    /\ r.bytes >= 0
    /\ r.ttfb # Null => (r.ttfb[1] >= 0 /\ r.total >= r.ttfb[1])

\* A result whose first byte arrived on a hop started after time 0.
C7_Witness ==
  /\ \E r \in Results : r.ttfb # Null /\ r.bytes > 0
  /\ hops # <<>> /\ LastHop.res = "ended" /\ LastHop.startTime > 0

\* C8: firstByteTime is set by the first data event of a hop to the time
\* of that event minus the hop's start time, no later data event changes
\* it, and the delivered ttfb is null exactly when the hop saw no data
\* event before end-of-body.
C8_FirstByteLatched ==
  /\ [](\A h \in DOMAIN hops : (hops[h].firstByteTime = Null) <=> (hops[h].chunks = 0))
  /\ [](\A r \in Results : (r.ttfb = Null) <=> (LastHop.chunks = 0))
  /\ [][\A h \in DOMAIN hops :
          /\ hops[h].firstByteTime # Null
               => hops'[h].firstByteTime = hops[h].firstByteTime
          /\ (hops[h].chunks = 0 /\ hops'[h].chunks = 1)
               => hops'[h].firstByteTime = Some(now - hops[h].startTime)]_vars

\* A hop whose second data event came later than its first one.
C8_Witness ==
  \E h \in DOMAIN hops :
    /\ hops[h].chunks = 2
    /\ hops[h].lastActivity - hops[h].startTime > hops[h].firstByteTime[1]

C10_MalformedRejected ==
  (targetUrl # Null /\ targetUrl # Some("")
     /\ Falsy(ParseUrl(FullUrl(targetUrl[1])).hostname))
    => (hops = <<>> /\ Len(calls) = 1 /\ calls[1].err # Null)

\* C11: a 3xx response whose Location header is absent or empty is terminal:
\* the hop issues no further request and streams the body, and at
\* end-of-body a result with the byte count and first-byte time of that
\* response is delivered, not an error.
C11_RedirectWithoutLocation ==
  \A h \in DOMAIN hops :
    (IsRedirect(hops[h].statusCode) /\ hops[h].location \in {Null, Some("")})
      => /\ h = Len(hops)
         /\ hops[h].res \in {"flowing", "ended"}
         /\ hops[h].res = "ended"
              => /\ Errors = {}
                 /\ \E r \in Results : /\ r.bytes = hops[h].bytesTransferred
                                       /\ r.ttfb = hops[h].firstByteTime

\* A 302 without a usable Location ended after a body chunk.
C11_Witness ==
  /\ hops # <<>>
  /\ LastHop.statusCode = RedirectStatus /\ LastHop.location = Some("")
  /\ LastHop.res = "ended" /\ LastHop.chunks >= 1
  /\ Results # {}

\* C12: at every hop the redirect count read from the hop's URL equals the
\* number of redirects already followed: 0 at the first hop, one more after
\* each followed redirect, whatever the target and the Location values are.
C12_CountMatchesHops ==
  \A h \in DOMAIN hops : RedirectCount(hops[h].testUrl) = h - 1

\* C13: once the outcome is delivered no connection stays open with a
\* response that was neither consumed nor aborted: a hop whose idle deadline
\* has passed by then has had its request destroyed or its body read to the
\* end.
C13_ConnectionsReleased ==
  Len(calls) >= 1 =>
    \A h \in DOMAIN hops :
      ~hops[h].timeoutListener =>
        (hops[h].req = "destroyed" \/ hops[h].res = "ended")

\* The hops on which this step emits a transport error.
TransportErrorOn(h) ==
  /\ h \in DOMAIN hops /\ h \in DOMAIN hops'
  /\ ~hops[h].errored /\ hops'[h].errored
  /\ hops'[h].emitted # Null /\ hops'[h].emitted[1] \in TransportErrors

\* The message the caller is to see for a transport error.
ClassifiedMessage(e) ==
  CASE e.code = "ECONNRESET" -> "Connection reset by server"
    [] e.code = "ETIMEDOUT"  -> "Connection timed out"
    [] OTHER                 -> e.message

DeliversResult ==
  /\ Len(calls') = Len(calls) + 1
  /\ calls'[Len(calls')].data # Null

\* C15: the delivered result is the terminal value of the final hop only:
\* it is delivered by the end of the last hop's body, total is the time
\* since that hop's request was issued, ttfb and bytes are that hop's, and
\* no earlier hop has streamed a body.
C15_FinalHopOnly ==
  [][DeliversResult =>
       LET r == calls'[Len(calls')].data[1]
           n == Len(hops)
       IN  /\ Len(hops') = n
           /\ hops[n].res = "flowing" /\ hops'[n].res = "ended"
           /\ r.total = now - hops[n].startTime
           /\ r.ttfb = hops[n].firstByteTime
           /\ r.bytes = hops[n].received
           /\ \A h \in 1..(n - 1) :
                hops[h].res = "unread" /\ hops[h].received = 0]_vars

\* A result delivered by a hop that was issued later than the first one.
C15_Witness ==
  /\ Len(hops) >= 2
  /\ LastHop.startTime > hops[1].startTime
  /\ LastHop.res = "ended" /\ LastHop.received > 0
  /\ Results # {}

\* C16: the byte counter of a hop equals the sum of the lengths of the body
\* chunks received on it so far and never decreases, and the bytes of a
\* delivered result is that sum at end-of-body.
C16_BytesSumChunks ==
  /\ [](\A h \in DOMAIN hops : hops[h].bytesTransferred = hops[h].received)
  /\ [](\A r \in Results : LastHop.res = "ended" /\ r.bytes = LastHop.received)
  /\ [][\A h \in DOMAIN hops :
          hops'[h].bytesTransferred >= hops[h].bytesTransferred]_vars

\* A result for a body that came in two chunks of different sizes.
C16_Witness ==
  /\ hops # <<>>
  /\ LastHop.chunks = 2 /\ LastHop.received = 3
  /\ \E r \in Results : r.bytes = 3

\* C17: the target of the hop after a followed redirect is an absolute URL:
\* it begins with the Location when that is absolute, and otherwise has the
\* scheme of the current hop and the host of the current hop, or the host the
\* Location names when it is protocol-relative.  Hops whose own URL names no
\* host are left aside.
C17_NextHopResolved ==
  \A h \in 1..(Len(hops) - 1) :
    LET loc == hops[h].location[1]
        cur == ParseUrl(hops[h].testUrl)
        nxt == ParseUrl(hops[h + 1].testUrl)
    IN  IF Falsy(cur.host) THEN TRUE
        ELSE IF ParseUrl(loc).protocol # Null
        THEN StartsWith(hops[h + 1].testUrl, loc)
        ELSE /\ nxt.protocol = cur.protocol
             /\ nxt.host = IF StartsWith(loc, "//")
                           THEN ParseUrl(cur.protocol[1] \o loc).host
                           ELSE cur.host

\* The requests of call r, as positions in the page's request log.
RequestsOf(r) == {k \in DOMAIN requests : requests[k].run = r}

\* The requests the network has not settled yet.
InFlight == {k \in DOMAIN requests : requests[k].outcome = Null}

\* C18: within one runTests call the URLs are tested one at a time in list
\* order: the n-th request of the call is the /api/test request for its n-th
\* URL, it is issued only once the rows of the URLs before it have been
\* filled in, and at most one request of the call is in flight.
C18_OneAtATime ==
  \A r \in DOMAIN runs :
    /\ Cardinality(RequestsOf(r) \cap InFlight) <= 1
    /\ Cardinality(RequestsOf(r)) <= Len(runs[r].urls)
    /\ \A k \in RequestsOf(r) :
         LET n == Cardinality({j \in RequestsOf(r) : j <= k})
         IN  /\ requests[k].url = ApiTestRequest(runs[r].urls[n])
             /\ \A w \in DOMAIN rows :
                  (rows[w].run = r /\ rows[w].position < n)
                    => rows[w].cells[1] # TestingText

\* A call is waiting for the answer about its second URL.
C18_Witness ==
  \E r \in DOMAIN runs :
    /\ Len(runs[r].urls) = 2
    /\ runs[r].position = 2 /\ runs[r].pc = "await"
    /\ requests[runs[r].request].outcome = Null
    /\ requests[runs[r].request].url = "/api/test?url=b"

\* C19: after a further submission the table shows the latest submission
\* only: every attached row was made by the latest runTests call, the page
\* has at most one request in flight, and once every call has finished the
\* table holds one row per URL of the latest submission, in order.
C19_LatestSubmissionOnly ==
  /\ \A k \in DOMAIN resultsBody : rows[resultsBody[k]].run = Len(runs)
  /\ Cardinality(InFlight) <= 1
  /\ (runs # <<>> /\ \A r \in DOMAIN runs : runs[r].pc = "done")
       => [k \in DOMAIN resultsBody |-> rows[resultsBody[k]].url]
            = runs[Len(runs)].urls

====
